---- MODULE Spec2Model ----
(***************************************************************************)
(* Model of EventsService (src/src/events/events.service.ts): marketer     *)
(* participation (addMarketerToEvent / removeMarketerFromEvent), the       *)
(* concierge request workflow (requestConcierge / reviewConciergeRequest / *)
(* cancelConciergeRequest), attendee check-in (checkInAttendee) and bus     *)
(* pickups (addBusPickup).                                                 *)
(*                                                                         *)
(* Every handler is an async function: each `await` on the store is a      *)
(* suspension point, so a handler is a sequence of atomic steps, and the   *)
(* steps of concurrently running handlers interleave freely.               *)
(*                                                                         *)
(* The Event document is a mongoose document.  event.save() sends only the *)
(* paths modified in memory since the document was loaded:                 *)
(*   - array.push(x)            -> $push x, $inc __v  (no condition on __v)*)
(*   - array.splice / array = a -> $set whole array, $inc __v, and         *)
(*                                 the update is conditioned on __v        *)
(*   - subdocument field = x    -> $set array.i.field, conditioned on __v  *)
(* and save() rejects when the conditioned update matches no document.     *)
(*                                                                         *)
(* findOne loads the event with populate('marketers'): in the loaded       *)
(* document every entry of marketers is the user's document, not the       *)
(* stored identifier, and its toString() is the text of that document.     *)
(***************************************************************************)
EXTENDS Integers, Sequences, FiniteSets, TLC

\* Total number of handler invocations in one behaviour.
MaxCalls == 3

\* Concurrent callers (each runs one handler at a time).
Procs == {"p1", "p2"}

\* Identifiers.  e1 is the stored event; "e2" (attendee a2's event) is the id
\* of an event that is no longer stored.
EventIds == {"e1"}
Marketers == {"m1"}
Concierges == {"c1", "c2"}
UserIds == Marketers \cup Concierges
Phones == {"ph1", "ph2"}
AttendeeIds == {"a1", "a2"}
NoUser == "none"

\* `reviewedAt: undefined` / an absent timestamp.
undefined == -1

\* HTTP error kinds the handlers raise, and success.
OK == "OK"
NOT_FOUND == "NOT_FOUND"
UNAUTHORIZED == "UNAUTHORIZED"
BAD_REQUEST == "BAD_REQUEST"
INTERNAL_SERVER_ERROR == "INTERNAL_SERVER_ERROR"
NoResult == "-"
\* myStatus of a user for an event that is not among the user's assignments.
NoStatus == "none"

VARIABLES
    events,              \* Event collection: EventIds -> document
    eventParticipation,  \* User collection: UserIds -> set of event ids
    attendees,           \* Attendee collection: AttendeeIds -> record
    proc,                \* per caller: the running handler and its locals
    ncalls,              \* handlers invoked so far (also the source of ids)
    writeFailed,         \* whether the store has rejected a write so far
    inflight             \* writes still in flight after their handler threw

vars == <<events, eventParticipation, attendees, proc, ncalls, writeFailed,
          inflight>>

----------------------------------------------------------------------------
\* Data

\* User.role (schema: src/unnamed/part_000 line 19-20); roles never change here.
role(u) == IF u \in Marketers THEN "marketer" ELSE "concierge"

NoDoc == [exists |-> FALSE, marketers |-> <<>>, conciergeRequests |-> <<>>,
          busPickups |-> <<>>, v |-> 0]

\* lines 75-81: the bus pickup addBusPickup pushes.
BusPickup(location, departureTime) ==
    [location |-> location, departureTime |-> departureTime,
     maxCapacity |-> 50, currentCount |-> 0, notes |-> ""]

Request(id, u, status, requestedAt, reviewedAt) ==
    [id |-> id, user |-> u, status |-> status,
     requestedAt |-> requestedAt, reviewedAt |-> reviewedAt]

\* Request lists the stored event can hold when the behaviour starts; each is
\* what earlier request / review calls leave behind.
InitRequests ==
    { <<>>,
      << Request(101, "c1", "Pending", 0, undefined) >>,
      << Request(101, "c1", "Approved", 0, 0) >> }

\* A wider choice for the runs in which handlers execute one at a time; the
\* lists with two Pending requests of one user are what two overlapping
\* request calls leave behind.
SeqInitRequests ==
    InitRequests \cup
    { << Request(101, "c1", "Rejected", 0, 0) >>,
      << Request(101, "c1", "Approved", 0, 0), Request(102, "c2", "Approved", 0, 0) >>,
      << Request(101, "c1", "Rejected", 0, 0), Request(102, "c2", "Pending", 0, undefined) >>,
      << Request(101, "c2", "Pending", 0, undefined), Request(102, "c1", "Approved", 0, 0),
         Request(103, "c1", "Pending", 0, undefined) >>,
      << Request(101, "c1", "Pending", 0, undefined), Request(102, "c2", "Rejected", 0, 0),
         Request(103, "c1", "Pending", 0, undefined) >> }

IdleProc ==
    [pc |-> "idle", op |-> NoResult, e |-> "e1", u |-> NoUser, rid |-> 0,
     approve |-> FALSE, phone |-> "ph1", t |-> 0, date |-> 0, snap |-> NoDoc,
     pickup |-> BusPickup("l1", "d1"),
     att |-> "a1", wE |-> "none", wU |-> "none", res |-> NoResult]

InitWith(requestLists) ==
    /\ \E rs \in requestLists :
          events = [e \in EventIds |->
                      [exists |-> TRUE, marketers |-> <<>>,
                       conciergeRequests |-> rs, busPickups |-> <<>>, v |-> 0]]
    /\ eventParticipation = [u \in UserIds |-> {}]
    /\ attendees = [a \in AttendeeIds |->
                      [event |-> IF a = "a1" THEN "e1" ELSE "e2", phone |-> "ph1",
                       checkedIn |-> FALSE, checkedInBy |-> NoUser,
                       checkedInTime |-> undefined]]
    /\ proc = [p \in Procs |-> IdleProc]
    /\ ncalls = 0
    /\ writeFailed = FALSE
    /\ inflight = {}

Init == InitWith(InitRequests)

SeqInit == InitWith(SeqInitRequests)

----------------------------------------------------------------------------
\* Sequence helpers (Array.prototype.some / find / findIndex / filter / splice)

Range(s) == { s[i] : i \in 1..Len(s) }

\* find / findIndex: the least of the matching positions, 0 when none matches.
FirstIndex(matching) ==
    IF matching = {} THEN 0
    ELSE CHOOSE i \in matching : \A j \in matching : i <= j

\* splice(i, 1)
RemoveAt(s, i) == [j \in 1..(Len(s)-1) |-> IF j < i THEN s[j] ELSE s[j+1]]

\* What populate('marketers', '-password') puts in place of the stored
\* identifier of user u (lines 57-60): the user's document.
UserDocument(u) == [_id |-> u, role |-> role(u)]

\* toString() of an entry of the loaded marketers array.  The entry is a
\* populated document, and a document's toString() is the text of its
\* inspection, which is the hexadecimal text of no identifier.
toString(m) == "{ _id: " \o m._id \o ", role: " \o m.role \o " }"

\* filter(id => id.toString() !== u)
RECURSIVE Without(_, _)
Without(s, u) ==
    IF s = <<>> THEN <<>>
    ELSE IF toString(Head(s)) = u THEN Without(Tail(s), u)
         ELSE <<Head(s)>> \o Without(Tail(s), u)

----------------------------------------------------------------------------
\* Starting and finishing a handler

CanCall(p) == proc[p].pc = "idle" /\ ncalls < MaxCalls

\* A handler's locals when it is invoked as call number ncalls+1.
Started(op, e, u) ==
    [IdleProc EXCEPT !.op = op, !.e = e, !.u = u, !.t = ncalls + 1]

\* new Date() reads the time of day: the value may equal one read before, be
\* later, or (the time having been set back) earlier.  The stored requests of
\* Init carry the date 0.
Dates == {1, 2}

\* The handler returns or throws: only the call's number, arguments, the date
\* it took and its outcome remain.
Finished(r, result) ==
    [IdleProc EXCEPT !.op = r.op, !.e = r.e, !.u = r.u, !.rid = r.rid,
                     !.approve = r.approve, !.phone = r.phone, !.t = r.t,
                     !.date = r.date, !.pickup = r.pickup,
                     !.wE = r.wE, !.wU = r.wU, !.res = result]

----------------------------------------------------------------------------
\* The Event store

\* populate: each stored marketer identifier is replaced by its user document.
populate(doc) ==
    [doc EXCEPT !.marketers =
        [i \in 1..Len(doc.marketers) |-> UserDocument(doc.marketers[i])]]

\* findOne: the stored document with its marketers populated (exists = FALSE:
\* NotFoundException).
findOne(e) == populate(events[e])

\* save() after array.push(x): $push x and $inc __v on the stored document,
\* whatever its version.
savePush(doc, field, x) ==
    IF field = "marketers"
    THEN [doc EXCEPT !.marketers = Append(@, x), !.v = @ + 1]
    ELSE IF field = "busPickups"
    THEN [doc EXCEPT !.busPickups = Append(@, x), !.v = @ + 1]
    ELSE [doc EXCEPT !.conciergeRequests = Append(@, x), !.v = @ + 1]

\* A save() whose update is conditioned on the version loaded with the document
\* matches the stored document only while that version is still current.
versionMatches(doc, snap) == doc.exists /\ doc.v = snap.v

----------------------------------------------------------------------------
\* requestConcierge (lines 191-211)

\* Variant of the duplicate check that ignores the status of the request.
hasPending_anyStatus(reqs, u) ==
    \E i \in 1..Len(reqs) : reqs[i].user = u

\* line 197: some(r => r.user === userId && r.status === 'Pending')
hasPending(reqs, u) ==
    \E i \in 1..Len(reqs) : reqs[i].user = u /\ reqs[i].status = "Pending"

\* lines 202-208: the pushed subdocument; its _id and requestedAt are fresh.
newRequest(u, id, date) == Request(id, u, "Pending", date, undefined)

\* Result of the checks made right after the event is loaded.
requestCheck(doc, u) ==
    IF ~doc.exists THEN NOT_FOUND
    ELSE IF hasPending(doc.conciergeRequests, u) THEN BAD_REQUEST
    ELSE OK

\* Invocation, findOne and the duplicate check.
requestConcierge(p, e, u, now) ==
    /\ CanCall(p)
    /\ ncalls' = ncalls + 1
    /\ LET r == Started("request", e, u)
           c == requestCheck(findOne(e), u)
       IN /\ proc' = [proc EXCEPT ![p] =
                     IF c = OK
                     THEN [r EXCEPT !.pc = "rq_save", !.snap = findOne(e),
                                    !.date = now]
                     ELSE Finished(r, c)]
    /\ UNCHANGED <<events, eventParticipation, attendees, writeFailed, inflight>>

\* line 209: await event.save()
requestConcierge_save(p) ==
    /\ proc[p].pc = "rq_save"
    /\ LET r == proc[p]
           doc == events[r.e]
       IN IF doc.exists
          THEN /\ events' = [events EXCEPT ![r.e] =
                               savePush(doc, "conciergeRequests", newRequest(r.u, r.t, r.date))]
               /\ proc' = [proc EXCEPT ![p] = Finished(r, OK)]
               /\ writeFailed' = writeFailed
          ELSE /\ events' = events
               /\ writeFailed' = TRUE
               /\ proc' = [proc EXCEPT ![p] = Finished(r, INTERNAL_SERVER_ERROR)]
    /\ UNCHANGED <<eventParticipation, attendees, ncalls, inflight>>

----------------------------------------------------------------------------
\* reviewConciergeRequest (lines 265-279)

\* line 270: find(r => r._id === requestId), as an index (0: not found)
findRequest(reqs, rid) == FirstIndex({ i \in 1..Len(reqs) : reqs[i].id = rid })

\* Variant of the checks without the `status !== 'Pending'` guard of line 273.
reviewCheck_noStatusGuard(doc, rid) ==
    IF ~doc.exists THEN NOT_FOUND
    ELSE IF findRequest(doc.conciergeRequests, rid) = 0 THEN NOT_FOUND
    ELSE OK

\* lines 266-273
reviewCheck(doc, rid) ==
    IF ~doc.exists THEN NOT_FOUND
    ELSE IF findRequest(doc.conciergeRequests, rid) = 0 THEN NOT_FOUND
    ELSE IF doc.conciergeRequests[findRequest(doc.conciergeRequests, rid)].status
              # "Pending" THEN BAD_REQUEST
    ELSE OK

\* Variant of the review that also stamps requestedAt.
reviewed_stampsRequestedAt(req, approve, t) ==
    [req EXCEPT !.status = IF approve THEN "Approved" ELSE "Rejected",
                !.reviewedAt = t, !.requestedAt = t]

\* lines 274-275
reviewed(req, approve, t) ==
    [req EXCEPT !.status = IF approve THEN "Approved" ELSE "Rejected",
                !.reviewedAt = t]

reviewConciergeRequest(p, e, rid, approve, now) ==
    /\ CanCall(p)
    /\ ncalls' = ncalls + 1
    /\ LET r == [Started("review", e, NoUser) EXCEPT !.rid = rid, !.approve = approve]
           c == reviewCheck(findOne(e), rid)
       IN /\ proc' = [proc EXCEPT ![p] =
                     IF c = OK
                     THEN [r EXCEPT !.pc = "rv_save", !.snap = findOne(e),
                                    !.date = now]
                     ELSE Finished(r, c)]
    /\ UNCHANGED <<events, eventParticipation, attendees, writeFailed, inflight>>

\* line 277: save() sets conciergeRequests.<i>.status / .reviewedAt by position,
\* conditioned on the loaded version, and leaves the version as it is.
saveReview(doc, snap, rid, approve, t) ==
    LET i == findRequest(snap.conciergeRequests, rid)
    IN [doc EXCEPT !.conciergeRequests[i] = reviewed(@, approve, t)]

reviewConciergeRequest_save(p) ==
    /\ proc[p].pc = "rv_save"
    /\ LET r == proc[p]
           doc == events[r.e]
       IN IF versionMatches(doc, r.snap)
          THEN /\ events' = [events EXCEPT ![r.e] =
                               saveReview(doc, r.snap, r.rid, r.approve, r.date)]
               /\ proc' = [proc EXCEPT ![p] = Finished(r, OK)]
               /\ writeFailed' = writeFailed
          ELSE /\ events' = events
               /\ writeFailed' = TRUE
               /\ proc' = [proc EXCEPT ![p] = Finished(r, INTERNAL_SERVER_ERROR)]
    /\ UNCHANGED <<eventParticipation, attendees, ncalls, inflight>>

----------------------------------------------------------------------------
\* cancelConciergeRequest (lines 304-312)

\* Variant of the lookup that ignores the status of the request.
findPending_anyStatus(reqs, u) ==
    FirstIndex({ i \in 1..Len(reqs) : reqs[i].user = u })

\* line 307: findIndex(r => r.user === userId && r.status === 'Pending')
findPending(reqs, u) ==
    FirstIndex({ i \in 1..Len(reqs) : reqs[i].user = u /\ reqs[i].status = "Pending" })

cancelCheck(doc, u) ==
    IF ~doc.exists THEN NOT_FOUND
    ELSE IF findPending(doc.conciergeRequests, u) = 0 THEN NOT_FOUND
    ELSE OK

cancelConciergeRequest(p, e, u) ==
    /\ CanCall(p)
    /\ ncalls' = ncalls + 1
    /\ LET r == Started("cancel", e, u)
           c == cancelCheck(findOne(e), u)
       IN proc' = [proc EXCEPT ![p] =
                     IF c = OK
                     THEN [r EXCEPT !.pc = "cn_save", !.snap = findOne(e)]
                     ELSE Finished(r, c)]
    /\ UNCHANGED <<events, eventParticipation, attendees, writeFailed, inflight>>

\* lines 309-310: splice on the loaded array, then save() $sets the whole array
\* as it is in memory, conditioned on the loaded version, and $incs the version.
saveCancel(doc, snap, u) ==
    [doc EXCEPT !.conciergeRequests =
                   RemoveAt(snap.conciergeRequests, findPending(snap.conciergeRequests, u)),
                !.v = @ + 1]

cancelConciergeRequest_save(p) ==
    /\ proc[p].pc = "cn_save"
    /\ LET r == proc[p]
           doc == events[r.e]
       IN IF versionMatches(doc, r.snap)
          THEN /\ events' = [events EXCEPT ![r.e] = saveCancel(doc, r.snap, r.u)]
               /\ proc' = [proc EXCEPT ![p] = Finished(r, OK)]
               /\ writeFailed' = writeFailed
          ELSE /\ events' = events
               /\ writeFailed' = TRUE
               /\ proc' = [proc EXCEPT ![p] = Finished(r, INTERNAL_SERVER_ERROR)]
    /\ UNCHANGED <<eventParticipation, attendees, ncalls, inflight>>

----------------------------------------------------------------------------
\* The dual write of the participation coordinator:
\*   await Promise.all([event.save(), usersService.<add|remove>EventParticipation()])
\* Both writes are issued; each settles on its own ("ok": committed, "fail":
\* rejected).  Promise.all resolves once both have committed and rejects as
\* soon as one is rejected, whatever the state of the other.

settled(r) == (r.wE = "ok" /\ r.wU = "ok") \/ r.wE = "fail" \/ r.wU = "fail"

\* Variant in which a rejected write is swallowed when the other one committed.
writesOutcome_anyCommitted(wE, wU) ==
    IF wE = "ok" \/ wU = "ok" THEN OK ELSE INTERNAL_SERVER_ERROR

\* lines 110-117 / 135-143: Promise.all rejects when a write rejects, and the
\* catch turns the rejection into INTERNAL_SERVER_ERROR; otherwise the handler
\* goes on to its final findOne.
writesOutcome(wE, wU) ==
    IF wE = "ok" /\ wU = "ok" THEN OK ELSE INTERNAL_SERVER_ERROR

afterWrites(r, retpc) ==
    IF ~settled(r) THEN r
    ELSE IF writesOutcome(r.wE, r.wU) = OK THEN [r EXCEPT !.pc = retpc]
    ELSE Finished(r, writesOutcome(r.wE, r.wU))

\* A write of the pair, as the store will see it when it arrives.
Write(r, side) ==
    [op |-> r.op, side |-> side, e |-> r.e, u |-> r.u, t |-> r.t,
     snap |-> IF side = "event" /\ r.op = "leave" THEN r.snap ELSE NoDoc]

\* The writes the handler leaves behind: when Promise.all rejects while the
\* other write has not settled, the handler throws and that write stays in
\* flight.
abandoned(r) ==
    IF settled(r) /\ writesOutcome(r.wE, r.wU) # OK
    THEN { Write(r, "event") : x \in IF r.wE = "pending" THEN {1} ELSE {} }
         \cup { Write(r, "user") : x \in IF r.wU = "pending" THEN {1} ELSE {} }
    ELSE {}

\* usersService.addEventParticipation / removeEventParticipation
addEventParticipation(u, e) ==
    [eventParticipation EXCEPT ![u] = @ \cup {e}]

removeEventParticipation(u, e) ==
    [eventParticipation EXCEPT ![u] = @ \ {e}]

----------------------------------------------------------------------------
\* addMarketerToEvent (lines 89-121)

\* line 105: marketers.some(m => m.toString() === marketerId_ObjId.toString())
\* on the array findOne loaded.
isMarketerAlreadyAdded(doc, u) ==
    \E i \in 1..Len(doc.marketers) : toString(doc.marketers[i]) = u

\* Variant of the handler's checks without the role check.
joinCheck_noRoleCheck(doc, u) ==
    IF ~doc.exists THEN NOT_FOUND
    ELSE IF isMarketerAlreadyAdded(doc, u) THEN "noop"
    ELSE "write"

\* lines 90-107: what the handler does after loading the event and the user.
joinCheck(doc, u) ==
    IF ~doc.exists THEN NOT_FOUND
    ELSE IF role(u) # "marketer" THEN UNAUTHORIZED
    ELSE IF isMarketerAlreadyAdded(doc, u) THEN "noop"
    ELSE "write"

addMarketerToEvent(p, e, u) ==
    /\ CanCall(p)
    /\ ncalls' = ncalls + 1
    /\ LET r == Started("join", e, u)
           c == joinCheck(findOne(e), u)
       IN proc' = [proc EXCEPT ![p] =
                     IF c = "write"
                     THEN [r EXCEPT !.pc = "jn_write", !.snap = findOne(e),
                                    !.wE = "pending", !.wU = "pending"]
                     ELSE IF c = "noop" THEN [r EXCEPT !.pc = "jn_ret"]
                     ELSE Finished(r, c)]
    /\ UNCHANGED <<events, eventParticipation, attendees, writeFailed, inflight>>

\* line 112: event.save() after marketers.push(id); ok = FALSE: the store
\* rejects the write.
addMarketerToEvent_save(p, ok) ==
    /\ proc[p].pc = "jn_write" /\ proc[p].wE = "pending"
    /\ LET r == proc[p]
           doc == events[r.e]
       IN IF ok /\ doc.exists
          THEN /\ events' = [events EXCEPT ![r.e] = savePush(doc, "marketers", r.u)]
               /\ proc' = [proc EXCEPT ![p] = afterWrites([r EXCEPT !.wE = "ok"], "jn_ret")]
               /\ inflight' = inflight \cup abandoned([r EXCEPT !.wE = "ok"])
               /\ writeFailed' = writeFailed
          ELSE /\ events' = events
               /\ writeFailed' = TRUE
               /\ proc' = [proc EXCEPT ![p] = afterWrites([r EXCEPT !.wE = "fail"], "jn_ret")]
               /\ inflight' = inflight \cup abandoned([r EXCEPT !.wE = "fail"])
    /\ UNCHANGED <<eventParticipation, attendees, ncalls>>

\* line 113: usersService.addEventParticipation(marketerId, eventId)
addMarketerToEvent_user(p, ok) ==
    /\ proc[p].pc = "jn_write" /\ proc[p].wU = "pending"
    /\ LET r == proc[p]
       IN IF ok
          THEN /\ eventParticipation' = addEventParticipation(r.u, r.e)
               /\ proc' = [proc EXCEPT ![p] = afterWrites([r EXCEPT !.wU = "ok"], "jn_ret")]
               /\ inflight' = inflight \cup abandoned([r EXCEPT !.wU = "ok"])
               /\ writeFailed' = writeFailed
          ELSE /\ eventParticipation' = eventParticipation
               /\ writeFailed' = TRUE
               /\ proc' = [proc EXCEPT ![p] = afterWrites([r EXCEPT !.wU = "fail"], "jn_ret")]
               /\ inflight' = inflight \cup abandoned([r EXCEPT !.wU = "fail"])
    /\ UNCHANGED <<events, attendees, ncalls>>

\* line 120: return this.findOne(eventId)  (outside any try)
addMarketerToEvent_return(p) ==
    /\ proc[p].pc = "jn_ret"
    /\ proc' = [proc EXCEPT ![p] =
                  Finished(proc[p], IF findOne(proc[p].e).exists THEN OK ELSE NOT_FOUND)]
    /\ UNCHANGED <<events, eventParticipation, attendees, ncalls, writeFailed, inflight>>

----------------------------------------------------------------------------
\* removeMarketerFromEvent (lines 123-144); every throw inside the try is
\* rethrown as INTERNAL_SERVER_ERROR (lines 141-143).

leaveCheck(doc) == IF ~doc.exists THEN INTERNAL_SERVER_ERROR ELSE OK

removeMarketerFromEvent(p, e, u) ==
    /\ CanCall(p)
    /\ ncalls' = ncalls + 1
    /\ LET r == Started("leave", e, u)
           c == leaveCheck(findOne(e))
       IN proc' = [proc EXCEPT ![p] =
                     IF c = OK
                     THEN [r EXCEPT !.pc = "lv_write", !.snap = findOne(e),
                                    !.wE = "pending", !.wU = "pending"]
                     ELSE Finished(r, c)]
    /\ UNCHANGED <<events, eventParticipation, attendees, writeFailed, inflight>>

\* lines 131-133
filteredMarketers(snap, u) == Without(snap.marketers, u)

\* line 136: event.save() after `event.marketers = filtered`.  An array equal to
\* the loaded one leaves the path unmodified, and save() then only requires
\* that the document still exists; otherwise the whole array is $set,
\* conditioned on the loaded version, and the version is $inc'ed.
saveLeaveMatches(doc, snap, u) ==
    IF filteredMarketers(snap, u) = snap.marketers
    THEN doc.exists
    ELSE versionMatches(doc, snap)

saveLeave(doc, snap, u) ==
    IF filteredMarketers(snap, u) = snap.marketers
    THEN doc
    ELSE [doc EXCEPT !.marketers = [i \in 1..Len(filteredMarketers(snap, u)) |->
                                       filteredMarketers(snap, u)[i]._id],
                     !.v = @ + 1]

removeMarketerFromEvent_save(p, ok) ==
    /\ proc[p].pc = "lv_write" /\ proc[p].wE = "pending"
    /\ LET r == proc[p]
           doc == events[r.e]
       IN IF ok /\ saveLeaveMatches(doc, r.snap, r.u)
          THEN /\ events' = [events EXCEPT ![r.e] = saveLeave(doc, r.snap, r.u)]
               /\ proc' = [proc EXCEPT ![p] = afterWrites([r EXCEPT !.wE = "ok"], "lv_ret")]
               /\ inflight' = inflight \cup abandoned([r EXCEPT !.wE = "ok"])
               /\ writeFailed' = writeFailed
          ELSE /\ events' = events
               /\ writeFailed' = TRUE
               /\ proc' = [proc EXCEPT ![p] = afterWrites([r EXCEPT !.wE = "fail"], "lv_ret")]
               /\ inflight' = inflight \cup abandoned([r EXCEPT !.wE = "fail"])
    /\ UNCHANGED <<eventParticipation, attendees, ncalls>>

\* line 137: usersService.removeEventParticipation(marketerId, eventId)
removeMarketerFromEvent_user(p, ok) ==
    /\ proc[p].pc = "lv_write" /\ proc[p].wU = "pending"
    /\ LET r == proc[p]
       IN IF ok
          THEN /\ eventParticipation' = removeEventParticipation(r.u, r.e)
               /\ proc' = [proc EXCEPT ![p] = afterWrites([r EXCEPT !.wU = "ok"], "lv_ret")]
               /\ inflight' = inflight \cup abandoned([r EXCEPT !.wU = "ok"])
               /\ writeFailed' = writeFailed
          ELSE /\ eventParticipation' = eventParticipation
               /\ writeFailed' = TRUE
               /\ proc' = [proc EXCEPT ![p] = afterWrites([r EXCEPT !.wU = "fail"], "lv_ret")]
               /\ inflight' = inflight \cup abandoned([r EXCEPT !.wU = "fail"])
    /\ UNCHANGED <<events, attendees, ncalls>>

\* lines 111-114 / 135-138: a write of the pair that was still in flight when
\* its handler threw reaches the store; ok = FALSE: the store rejects it.
\* Nobody awaits it any more, so no caller sees its outcome.
lateWrite(w, ok) ==
    /\ w \in inflight
    /\ inflight' = inflight \ {w}
    /\ LET doc == events[w.e]
           committed == /\ ok
                        /\ \/ w.side = "user"
                           \/ w.op = "join" /\ doc.exists
                           \/ w.op = "leave" /\ saveLeaveMatches(doc, w.snap, w.u)
       IN /\ events' =
                IF committed /\ w.side = "event"
                THEN [events EXCEPT ![w.e] =
                        IF w.op = "join" THEN savePush(doc, "marketers", w.u)
                        ELSE saveLeave(doc, w.snap, w.u)]
                ELSE events
          /\ eventParticipation' =
                IF committed /\ w.side = "user"
                THEN IF w.op = "join" THEN addEventParticipation(w.u, w.e)
                     ELSE removeEventParticipation(w.u, w.e)
                ELSE eventParticipation
          /\ writeFailed' = (writeFailed \/ ~committed)
    /\ UNCHANGED <<attendees, proc, ncalls>>

\* line 140: return this.findOne(eventId).  The promise is returned without
\* await, so its rejection passes by the catch of lines 141-143.
removeMarketerFromEvent_return(p) ==
    /\ proc[p].pc = "lv_ret"
    /\ proc' = [proc EXCEPT ![p] =
                  Finished(proc[p], IF findOne(proc[p].e).exists THEN OK ELSE NOT_FOUND)]
    /\ UNCHANGED <<events, eventParticipation, attendees, ncalls, writeFailed, inflight>>

----------------------------------------------------------------------------
\* remove (lines 179-189)

remove(p, e) ==
    /\ CanCall(p)
    /\ ncalls' = ncalls + 1
    /\ LET r == Started("remove", e, NoUser)
       IN proc' = [proc EXCEPT ![p] =
                     IF findOne(e).exists
                     THEN [r EXCEPT !.pc = "rm_del"]
                     ELSE Finished(r, NOT_FOUND)]
    /\ UNCHANGED <<events, eventParticipation, attendees, writeFailed, inflight>>

\* line 182: findByIdAndDelete(id)
remove_delete(p) ==
    /\ proc[p].pc = "rm_del"
    /\ events' = [events EXCEPT ![proc[p].e] = NoDoc]
    /\ proc' = [proc EXCEPT ![p] = Finished(proc[p], OK)]
    /\ UNCHANGED <<eventParticipation, attendees, ncalls, writeFailed, inflight>>

----------------------------------------------------------------------------
\* addBusPickup (lines 67-87); the whole body is inside the try, so a missing
\* event is rethrown as INTERNAL_SERVER_ERROR too (lines 84-86).

addBusPickup(p, e, location, departureTime) ==
    /\ CanCall(p)
    /\ ncalls' = ncalls + 1
    /\ LET r == [Started("busPickup", e, NoUser) EXCEPT
                   !.pickup = BusPickup(location, departureTime)]
       IN proc' = [proc EXCEPT ![p] =
                     IF findOne(e).exists
                     THEN [r EXCEPT !.pc = "bp_save"]
                     ELSE Finished(r, INTERNAL_SERVER_ERROR)]
    /\ UNCHANGED <<events, eventParticipation, attendees, writeFailed, inflight>>

\* line 83: save() after busPickups.push(...): a $push, which only requires
\* that the document still exists, and a $inc of the version.
addBusPickup_save(p) ==
    /\ proc[p].pc = "bp_save"
    /\ LET r == proc[p]
           doc == events[r.e]
       IN IF doc.exists
          THEN /\ events' = [events EXCEPT ![r.e] = savePush(doc, "busPickups", r.pickup)]
               /\ proc' = [proc EXCEPT ![p] = Finished(r, OK)]
               /\ writeFailed' = writeFailed
          ELSE /\ events' = events
               /\ writeFailed' = TRUE
               /\ proc' = [proc EXCEPT ![p] = Finished(r, INTERNAL_SERVER_ERROR)]
    /\ UNCHANGED <<eventParticipation, attendees, ncalls, inflight>>

----------------------------------------------------------------------------
\* checkInAttendee (lines 315-365); NotFoundException, UnauthorizedException
\* and HttpException pass through the catch unchanged (lines 358-362).

\* Variant of the approval check that accepts a request of any status.
conciergeApproved_anyStatus(doc, c) ==
    \E i \in 1..Len(doc.conciergeRequests) : doc.conciergeRequests[i].user = c

\* lines 324-326
conciergeApproved(doc, c) ==
    \E i \in 1..Len(doc.conciergeRequests) :
        doc.conciergeRequests[i].user = c /\ doc.conciergeRequests[i].status = "Approved"

\* Variant of the authorization that only requires the event to exist.
checkInAuth_existenceOnly(doc, c) ==
    IF ~doc.exists THEN NOT_FOUND ELSE OK

\* Variant of the authorization that looks only at the concierge's first
\* request in the list.
checkInAuth_firstRequestOnly(doc, c) ==
    LET i == FirstIndex({ j \in 1..Len(doc.conciergeRequests) :
                            doc.conciergeRequests[j].user = c })
    IN IF ~doc.exists THEN NOT_FOUND
       ELSE IF i = 0 \/ doc.conciergeRequests[i].status # "Approved" THEN UNAUTHORIZED
       ELSE OK

\* lines 318-330
checkInAuth(doc, c) ==
    IF ~doc.exists THEN NOT_FOUND
    ELSE IF ~conciergeApproved(doc, c) THEN UNAUTHORIZED
    ELSE OK

checkInAttendee(p, e, phone, c) ==
    /\ CanCall(p)
    /\ ncalls' = ncalls + 1
    /\ LET r == [Started("checkIn", e, c) EXCEPT !.phone = phone]
           a == checkInAuth(findOne(e), c)
       IN proc' = [proc EXCEPT ![p] =
                     IF a = OK THEN [r EXCEPT !.pc = "ci_find"] ELSE Finished(r, a)]
    /\ UNCHANGED <<events, eventParticipation, attendees, writeFailed, inflight>>

\* attendeesService.findByQuery({phone, event})
findByQuery(phone, e) ==
    { a \in AttendeeIds : attendees[a].phone = phone /\ attendees[a].event = e }

\* Variant of the lookup without the already-checked-in guard.
checkInLookup_noCheckedInGuard(found) ==
    IF found = {} THEN NOT_FOUND ELSE OK

\* lines 338-347
checkInLookup(found) ==
    IF found = {} THEN NOT_FOUND
    ELSE IF attendees[CHOOSE a \in found : TRUE].checkedIn THEN BAD_REQUEST
    ELSE OK

checkInAttendee_find(p, now) ==
    /\ proc[p].pc = "ci_find"
    /\ LET r == proc[p]
           found == findByQuery(r.phone, r.e)
           c == checkInLookup(found)
       IN /\ proc' = [proc EXCEPT ![p] =
                     IF c = OK
                     THEN [r EXCEPT !.pc = "ci_update", !.att = CHOOSE a \in found : TRUE,
                                    !.date = now]
                     ELSE Finished(r, c)]
    /\ UNCHANGED <<events, eventParticipation, attendees, ncalls, writeFailed, inflight>>

\* attendeesService.update(id, fields): sets the given fields of attendee id.
update(att, c, t) ==
    [att EXCEPT !.checkedIn = TRUE, !.checkedInBy = c, !.checkedInTime = t]

\* lines 350-356
checkInAttendee_update(p) ==
    /\ proc[p].pc = "ci_update"
    /\ LET r == proc[p]
       IN /\ attendees' = [attendees EXCEPT ![r.att] = update(@, r.u, r.date)]
          /\ proc' = [proc EXCEPT ![p] = Finished(r, OK)]
    /\ UNCHANGED <<events, eventParticipation, ncalls, writeFailed, inflight>>

----------------------------------------------------------------------------
\* getConciergeAssignments (lines 225-237); myStatus(e, u) is the
\* myConciergeStatus of e in the list returned for u.

\* lines 226-228: find({'conciergeRequests.user': userId}).lean()
assignedEvents(u) ==
    { e \in EventIds :
        /\ events[e].exists
        /\ \E i \in 1..Len(events[e].conciergeRequests) :
              events[e].conciergeRequests[i].user = u }

\* lines 231-235: find(r => r.user.toString() === userId), the first match;
\* myRequest ? myRequest.status : undefined
myConciergeStatus(doc, u) ==
    LET myRequest == FirstIndex({ i \in 1..Len(doc.conciergeRequests) :
                                    doc.conciergeRequests[i].user = u })
    IN IF myRequest # 0 THEN doc.conciergeRequests[myRequest].status ELSE NoStatus

getConciergeAssignments(p, e, u) ==
    /\ CanCall(p)
    /\ ncalls' = ncalls + 1
    /\ proc' = [proc EXCEPT ![p] =
                  Finished(Started("myStatus", e, u),
                           IF e \in assignedEvents(u)
                           THEN myConciergeStatus(events[e], u)
                           ELSE NoStatus)]
    /\ UNCHANGED <<events, eventParticipation, attendees, writeFailed, inflight>>

----------------------------------------------------------------------------
\* Request ids a caller can name: the ids of the event's requests, and 0, an
\* id no request has.
ReqIds(e) == { r.id : r \in Range(events[e].conciergeRequests) } \cup {0}

\* The bus pickups a caller can ask for.
Locations == {"l1"}
DepartureTimes == {"d1"}

\* The steps of adding a bus pickup.
BusPickupStep(p) ==
    \/ \E e \in EventIds, l \in Locations, d \in DepartureTimes : addBusPickup(p, e, l, d)
    \/ addBusPickup_save(p)

\* A write left in flight by a handler that threw reaches the store.
LateWriteStep == \E w \in inflight, ok \in BOOLEAN : lateWrite(w, ok)

\* The steps of the participation coordinator and of event removal.
ParticipationStep(p) ==
    \/ \E e \in EventIds, u \in UserIds : addMarketerToEvent(p, e, u)
    \/ \E ok \in BOOLEAN : addMarketerToEvent_save(p, ok)
    \/ \E ok \in BOOLEAN : addMarketerToEvent_user(p, ok)
    \/ addMarketerToEvent_return(p)
    \/ \E e \in EventIds, u \in UserIds : removeMarketerFromEvent(p, e, u)
    \/ \E ok \in BOOLEAN : removeMarketerFromEvent_save(p, ok)
    \/ \E ok \in BOOLEAN : removeMarketerFromEvent_user(p, ok)
    \/ removeMarketerFromEvent_return(p)
    \/ \E e \in EventIds : remove(p, e)
    \/ remove_delete(p)

\* The steps of the concierge workflow and of check-in.
ConciergeStep(p) ==
    \/ \E e \in EventIds, u \in Concierges, now \in Dates :
          requestConcierge(p, e, u, now)
    \/ requestConcierge_save(p)
    \/ \E e \in EventIds, a \in BOOLEAN, now \in Dates :
          \E rid \in ReqIds(e) : reviewConciergeRequest(p, e, rid, a, now)
    \/ reviewConciergeRequest_save(p)
    \/ \E e \in EventIds, u \in Concierges : cancelConciergeRequest(p, e, u)
    \/ cancelConciergeRequest_save(p)
    \/ \E e \in EventIds, u \in Concierges : getConciergeAssignments(p, e, u)
    \/ \E e \in EventIds, ph \in Phones, c \in Concierges :
          checkInAttendee(p, e, ph, c)
    \/ \E now \in Dates : checkInAttendee_find(p, now)
    \/ checkInAttendee_update(p)

\* Any caller takes the next step of its handler, or invokes one.
Next ==
    \/ \E p \in Procs : ParticipationStep(p) \/ ConciergeStep(p) \/ BusPickupStep(p)
    \/ LateWriteStep

Spec == Init /\ [][Next]_vars

\* A single caller, calling one handler at a time.  A write left in flight by
\* a call that threw reaches the store whenever it does, also while the
\* caller's next call is running.
SeqNext ==
    \/ ParticipationStep("p1") \/ ConciergeStep("p1") \/ BusPickupStep("p1")
    \/ LateWriteStep

SeqSpec == SeqInit /\ [][SeqNext]_vars

----------------------------------------------------------------------------
\* Properties

\* The error kinds of the specification, as the handlers raise them.
NotFound == NOT_FOUND
Forbidden == UNAUTHORIZED
Conflict == BAD_REQUEST

Requests(e) == events[e].conciergeRequests

\* Positions of the Pending requests of user u in a request list.
PendingOf(reqs, u) ==
    { i \in 1..Len(reqs) : reqs[i].user = u /\ reqs[i].status = "Pending" }

Terminal(req) == req.status \in {"Approved", "Rejected"}

\* Caller p invokes handler op in this step.
Invoked(p, op) ==
    /\ ncalls' = ncalls + 1
    /\ proc[p].pc = "idle"
    /\ proc'[p].op = op
    /\ proc'[p].t = ncalls + 1
    /\ \A q \in Procs \ {p} : proc'[q] = proc[q]

\* Caller p's handler returns or throws in this step.
Returns(p) == proc'[p].pc = "idle" /\ (proc[p].pc # "idle" \/ Invoked(p, proc'[p].op))

\* C1: every event holds at most one Pending request per user, in every
\* reachable state, also while request calls overlap.
C1_AtMostOnePending ==
    \A e \in EventIds, u \in UserIds : Cardinality(PendingOf(Requests(e), u)) <= 1

\* C2: per attendee at most one checkIn call succeeds, checkedIn never returns
\* to false, and checkedInBy / checkedInTime never change once set: a checkIn
\* succeeds only on an attendee not yet checked in, and no step changes an
\* attendee that is checked in.
C2_CheckInAtMostOnce ==
    [][ /\ \A a \in AttendeeIds :
              attendees[a].checkedIn => attendees'[a] = attendees[a]
        /\ \A p \in Procs :
              (proc[p].pc = "ci_update" /\ Returns(p) /\ proc'[p].res = OK)
                 => ~attendees[proc[p].att].checkedIn ]_vars

\* C3: a request that is Approved or Rejected stays in its event with that
\* status, whatever request, review, cancel, join and leave steps follow.
C3_TerminalIsFinal ==
    [][ \A e \in EventIds :
           events'[e].exists =>
              \A i \in 1..Len(Requests(e)) :
                 Terminal(Requests(e)[i]) =>
                    \E j \in 1..Len(events'[e].conciergeRequests) :
                       /\ events'[e].conciergeRequests[j].id = Requests(e)[i].id
                       /\ events'[e].conciergeRequests[j].status = Requests(e)[i].status
      ]_vars

IsMarketerIn(evs, e, u) == \E i \in 1..Len(evs[e].marketers) : evs[e].marketers[i] = u
IsMarketer(e, u) == IsMarketerIn(events, e, u)

ParticipatesIn(ep, u, e) == e \in ep[u]
Participates(u, e) == ParticipatesIn(eventParticipation, u, e)

\* A join or leave for (e, u) is between its invocation and its return.
InProgress(r, e, u) ==
    /\ r.pc \in {"jn_write", "jn_ret", "lv_write", "lv_ret"}
    /\ r.e = e /\ r.u = u

\* Exactly one of the two writes of a join or leave committed, the other failed.
OneSided(r) ==
    /\ r.op \in {"join", "leave"}
    /\ \/ r.wE = "ok" /\ r.wU = "fail"
       \/ r.wE = "fail" /\ r.wU = "ok"

\* C4: when join(e,u) of a Marketer returns success with no other join/leave
\* for (e,u) in progress, u is in e.marketers and e in u.eventParticipation;
\* when leave(e,u) does, neither holds.
C4_JoinLeavePostcondition ==
    [][ \A p \in Procs :
           LET r == proc'[p]
           IN ( /\ Returns(p) /\ r.res = OK
                /\ r.op \in {"join", "leave"}
                /\ r.u \in Marketers
                /\ \A q \in Procs \ {p} : ~InProgress(proc'[q], r.e, r.u) )
              => IF r.op = "join"
                 THEN IsMarketerIn(events', r.e, r.u)
                      /\ ParticipatesIn(eventParticipation', r.u, r.e)
                 ELSE ~IsMarketerIn(events', r.e, r.u)
                      /\ ~ParticipatesIn(eventParticipation', r.u, r.e) ]_vars

\* C5: while no join or leave is in progress and no store write has failed,
\* e is in u.eventParticipation exactly when u is in e.marketers.
C5_BackReferencesAgree ==
    ( /\ \A p \in Procs : proc[p].pc \notin {"jn_write", "jn_ret", "lv_write", "lv_ret"}
      /\ ~writeFailed )
    => \A e \in EventIds, u \in Marketers :
          events[e].exists => (Participates(u, e) <=> IsMarketer(e, u))

\* C6: a join or leave in which exactly one of the two writes committed and the
\* other failed does not return success (nor reach its closing read).
C6_NoSuccessWhenOneSided ==
    \A p \in Procs :
        OneSided(proc[p]) =>
            /\ proc[p].res # OK
            /\ proc[p].pc \notin {"jn_ret", "lv_ret"}

\* A join whose event-side write committed and whose user-side write failed
\* has returned an error, leaving u in e.marketers without the back-reference.
C6_Witness ==
    \E p \in Procs :
        /\ proc[p].pc = "idle" /\ proc[p].op = "join"
        /\ proc[p].wE = "ok" /\ proc[p].wU = "fail"
        /\ proc[p].res = INTERNAL_SERVER_ERROR
        /\ IsMarketer(proc[p].e, proc[p].u)
        /\ ~Participates(proc[p].u, proc[p].e)

\* The error a join or leave reports when neither write committed.
NeitherCommittedError == INTERNAL_SERVER_ERROR

\* C7: when a join or leave commits exactly one of its writes, then at its
\* return the two aggregates agree again, or the call reports an error kind
\* other than the one reported when neither write committed.
C7_PartialFailureDistinct ==
    [][ \A p \in Procs :
           LET r == proc'[p]
           IN (Returns(p) /\ OneSided(r))
              => \/ (ParticipatesIn(eventParticipation', r.u, r.e)
                       <=> IsMarketerIn(events', r.e, r.u))
                 \/ r.res \notin {OK, NeitherCommittedError} ]_vars

\* Caller p's handler op, invoked earlier, takes its writing step now.
Saves(p, op) == proc[p].op = op /\ proc[p].pc # "idle" /\ proc'[p] # proc[p]

\* The call of r runs without interleaving: the stored event is still the one
\* the call loaded, no other write having reached it since.
Uninterleaved(r) == populate(events[r.e]) = r.snap

\* C8: request(e,u) by a caller running one handler at a time fails with Conflict, leaving the event as it
\* is, exactly when the event holds a Pending request of u; otherwise it
\* succeeds and appends one request of u, Pending and without reviewedAt, at
\* the end of conciergeRequests.
C8_RequestSequential ==
    [][ \A p \in Procs :
          /\ Invoked(p, "request") =>
                LET r == proc'[p]
                IN IF ~events[r.e].exists
                   THEN r.pc = "idle" /\ r.res = NotFound /\ events' = events
                   ELSE IF PendingOf(Requests(r.e), r.u) # {}
                   THEN r.pc = "idle" /\ r.res = Conflict /\ events' = events
                   ELSE r.pc # "idle" /\ events' = events
          /\ Saves(p, "request") =>
                LET r == proc[p]
                    after == events'[r.e].conciergeRequests
                IN /\ proc'[p].pc = "idle" /\ proc'[p].res = OK
                   /\ Len(after) = Len(Requests(r.e)) + 1
                   /\ SubSeq(after, 1, Len(Requests(r.e))) = Requests(r.e)
                   /\ after[Len(after)].user = r.u
                   /\ after[Len(after)].status = "Pending"
                   /\ after[Len(after)].reviewedAt = undefined ]_vars

\* A request succeeded for a user whose earlier request was already reviewed:
\* the new Pending request is last, the reviewed one is still before it.
C8_Witness ==
    \E p \in Procs :
        /\ proc[p].pc = "idle" /\ proc[p].op = "request" /\ proc[p].res = OK
        /\ LET reqs == Requests(proc[p].e)
           IN /\ Len(reqs) >= 2
              /\ reqs[Len(reqs)].user = proc[p].u
              /\ reqs[Len(reqs)].status = "Pending"
              /\ \E i \in 1..(Len(reqs) - 1) :
                    reqs[i].user = proc[p].u /\ Terminal(reqs[i])

\* Position of the request with id rid in a request list (0: none).
PositionOf(reqs, rid) ==
    IF \E i \in 1..Len(reqs) : reqs[i].id = rid
    THEN CHOOSE i \in 1..Len(reqs) : reqs[i].id = rid
    ELSE 0

\* C9: review run without interleaving fails with NotFound when the event or the request
\* id does not exist; fails with Conflict, leaving the request as it is, when
\* the request is not Pending; and otherwise succeeds, setting the status to
\* Approved or Rejected as decided and setting reviewedAt.
C9_ReviewSequential ==
    [][ \A p \in Procs :
          /\ Invoked(p, "review") =>
                LET r == proc'[p]
                    i == PositionOf(Requests(r.e), r.rid)
                IN IF ~events[r.e].exists \/ i = 0
                   THEN r.pc = "idle" /\ r.res = NotFound /\ events' = events
                   ELSE IF Requests(r.e)[i].status # "Pending"
                   THEN r.pc = "idle" /\ r.res = Conflict /\ events' = events
                   ELSE r.pc # "idle" /\ events' = events
          /\ (Saves(p, "review") /\ Uninterleaved(proc[p])) =>
                LET r == proc[p]
                    i == PositionOf(Requests(r.e), r.rid)
                    after == events'[r.e].conciergeRequests
                IN /\ proc'[p].pc = "idle" /\ proc'[p].res = OK
                   /\ Len(after) = Len(Requests(r.e))
                   /\ after[i].id = r.rid
                   /\ after[i].status = IF r.approve THEN "Approved" ELSE "Rejected"
                   /\ after[i].reviewedAt # undefined ]_vars

\* A second review of a request that was already decided failed with Conflict.
C9_Witness ==
    \E p \in Procs :
        /\ proc[p].pc = "idle" /\ proc[p].op = "review" /\ proc[p].res = Conflict
        /\ LET i == PositionOf(Requests(proc[p].e), proc[p].rid)
           IN /\ i # 0
              /\ Terminal(Requests(proc[p].e)[i])
              /\ Requests(proc[p].e)[i].reviewedAt > 0

\* The list without its element at position i.
Dropped(reqs, i) == SubSeq(reqs, 1, i - 1) \o SubSeq(reqs, i + 1, Len(reqs))

Min(S) == CHOOSE x \in S : \A y \in S : x <= y

\* C10: cancel(e,u) run without interleaving fails with NotFound, leaving
\* conciergeRequests as it is, when the event holds no Pending request of u;
\* otherwise it removes exactly the first Pending request of u and nothing else.
C10_CancelSequential ==
    [][ \A p \in Procs :
          /\ Invoked(p, "cancel") =>
                LET r == proc'[p]
                IN IF PendingOf(Requests(r.e), r.u) = {}
                   THEN r.pc = "idle" /\ r.res = NotFound /\ events' = events
                   ELSE r.pc # "idle" /\ events' = events
          /\ (Saves(p, "cancel") /\ Uninterleaved(proc[p])) =>
                LET r == proc[p]
                IN /\ proc'[p].pc = "idle" /\ proc'[p].res = OK
                   /\ events'[r.e].conciergeRequests =
                         Dropped(Requests(r.e), Min(PendingOf(Requests(r.e), r.u))) ]_vars

\* A cancel succeeded and left behind a later Pending request of the same user
\* and requests of the other user.
C10_Witness ==
    \E p \in Procs :
        /\ proc[p].pc = "idle" /\ proc[p].op = "cancel" /\ proc[p].res = OK
        /\ PendingOf(Requests(proc[p].e), proc[p].u) # {}
        /\ \E i \in 1..Len(Requests(proc[p].e)) :
              Requests(proc[p].e)[i].user # proc[p].u

----------------------------------------------------------------------------
\* Check-in

\* User c has an Approved request in the request list.
HoldsApproved(reqs, c) ==
    \E i \in 1..Len(reqs) : reqs[i].user = c /\ reqs[i].status = "Approved"

\* The attendee records a check-in call for (phone, e) addresses.
Addressed(phone, e) ==
    { a \in AttendeeIds : attendees[a].phone = phone /\ attendees[a].event = e }

\* C11: a checkIn call that reads an existing event in which its concierge has
\* no Approved request (none at all, only Pending, only Rejected) fails with
\* Forbidden in that very step and modifies no attendee; and attendee records
\* change only in a step of a checkIn call that got past that check.
C11_CheckInNeedsApproval ==
    [][ /\ \A p \in Procs :
             ( /\ Invoked(p, "checkIn")
               /\ events[proc'[p].e].exists
               /\ ~HoldsApproved(Requests(proc'[p].e), proc'[p].u) )
             => /\ proc'[p].pc = "idle"
                /\ proc'[p].res = Forbidden
                /\ attendees' = attendees
        /\ attendees' # attendees
             => \E p \in Procs :
                   /\ proc[p].op = "checkIn" /\ proc[p].pc = "ci_update"
                   /\ proc'[p].pc = "idle" /\ proc'[p].res = OK
                   /\ \A a \in AttendeeIds :
                         attendees'[a] # attendees[a] => a = proc[p].att
      ]_vars

\* A checkIn by a concierge whose only request is Pending or Rejected has failed
\* with Forbidden, and the attendee it named is still unchecked.
C11_Witness ==
    \E p \in Procs :
        /\ proc[p].pc = "idle" /\ proc[p].op = "checkIn" /\ proc[p].res = Forbidden
        /\ events[proc[p].e].exists
        /\ \E i \in 1..Len(Requests(proc[p].e)) : Requests(proc[p].e)[i].user = proc[p].u
        /\ ~HoldsApproved(Requests(proc[p].e), proc[p].u)
        /\ Addressed(proc[p].phone, proc[p].e) # {}
        /\ \A a \in Addressed(proc[p].phone, proc[p].e) : ~attendees[a].checkedIn

\* C12: with handlers run one after another, a checkIn whose attendee is
\* already checked in fails with Conflict, and a checked-in attendee's record
\* (checkedIn, checkedInBy, checkedInTime) never changes again, whichever
\* approved concierge makes the later call.
C12_SecondCheckInConflicts ==
    [][ /\ \A p \in Procs :
             ( /\ proc[p].pc = "ci_find" /\ proc'[p] # proc[p]
               /\ \E a \in Addressed(proc[p].phone, proc[p].e) : attendees[a].checkedIn )
             => proc'[p].pc = "idle" /\ proc'[p].res = Conflict
        /\ \A a \in AttendeeIds :
             attendees[a].checkedIn => attendees'[a] = attendees[a]
      ]_vars

\* A checkIn by an approved concierge has failed with Conflict on an attendee
\* that another concierge checked in, and the record still names the first.
C12_Witness ==
    \E p \in Procs :
        /\ proc[p].pc = "idle" /\ proc[p].op = "checkIn" /\ proc[p].res = Conflict
        /\ HoldsApproved(Requests(proc[p].e), proc[p].u)
        /\ \E a \in Addressed(proc[p].phone, proc[p].e) :
              /\ attendees[a].checkedIn
              /\ attendees[a].checkedInBy \in Concierges \ {proc[p].u}
              /\ attendees[a].checkedInTime \in Dates

\* C13: with handlers run one after another, a checkIn by a concierge who
\* holds an Approved request in the existing event, on an existing attendee not
\* yet checked in, passes the authorization, finds the attendee, and returns
\* success having set checkedIn, checkedInBy = the concierge and checkedInTime.
C13_ApprovedCheckInSucceeds ==
    [][ \A p \in Procs :
          /\ ( /\ Invoked(p, "checkIn")
                /\ events[proc'[p].e].exists
                /\ HoldsApproved(Requests(proc'[p].e), proc'[p].u) )
             => proc'[p].pc = "ci_find"
          /\ ( /\ proc[p].pc = "ci_find" /\ proc'[p] # proc[p]
                /\ Addressed(proc[p].phone, proc[p].e) # {}
                /\ \A a \in Addressed(proc[p].phone, proc[p].e) : ~attendees[a].checkedIn )
             => /\ proc'[p].pc = "ci_update"
                /\ proc'[p].att \in Addressed(proc[p].phone, proc[p].e)
          /\ ( proc[p].pc = "ci_update" /\ proc'[p] # proc[p] )
             => /\ proc'[p].pc = "idle" /\ proc'[p].res = OK
                /\ attendees'[proc[p].att].checkedIn
                /\ attendees'[proc[p].att].checkedInBy = proc[p].u
                /\ attendees'[proc[p].att].checkedInTime # undefined
                /\ attendees'[proc[p].att].checkedInTime = proc[p].date
      ]_vars

\* request, an approving review of that request, and checkIn have run in this
\* order: the request made in this behaviour is Approved and the concierge's
\* checkIn returned success with the attendee marked by that concierge at the
\* date the call took.
C13_Witness ==
    \E p \in Procs :
        /\ proc[p].pc = "idle" /\ proc[p].op = "checkIn" /\ proc[p].res = OK
        /\ \E i \in 1..Len(Requests(proc[p].e)) :
              /\ Requests(proc[p].e)[i].user = proc[p].u
              /\ Requests(proc[p].e)[i].id \in 1..MaxCalls
              /\ Requests(proc[p].e)[i].status = "Approved"
              /\ Requests(proc[p].e)[i].requestedAt \in Dates
              /\ Requests(proc[p].e)[i].reviewedAt \in Dates
        /\ \E a \in Addressed(proc[p].phone, proc[p].e) :
              /\ attendees[a].checkedIn
              /\ attendees[a].checkedInBy = proc[p].u
              /\ attendees[a].checkedInTime = proc[p].date

----------------------------------------------------------------------------
\* Participation: no-op and rejected calls

\* Caller p's call has issued neither of its two writes.
NoWriteIssued(r) == r.wE = "none" /\ r.wU = "none"

\* C14: with handlers run one after another, a join of a Marketer who is
\* already in the existing event's marketers issues no write, returns success,
\* and leaves the event's marketers and the user's eventParticipation as they
\* were; so a second join adds nothing to what the first did.
C14_JoinIdempotent ==
    [][ \A p \in Procs :
          /\ ( /\ Invoked(p, "join")
                /\ events[proc'[p].e].exists
                /\ role(proc'[p].u) = "marketer"
                /\ IsMarketerIn(events, proc'[p].e, proc'[p].u) )
             => /\ proc'[p].pc = "jn_ret"
                /\ NoWriteIssued(proc'[p])
                /\ events' = events /\ eventParticipation' = eventParticipation
          /\ ( /\ proc[p].pc = "jn_ret" /\ NoWriteIssued(proc[p])
                /\ proc'[p] # proc[p] )
             => /\ proc'[p].pc = "idle" /\ proc'[p].res = OK
                /\ events' = events /\ eventParticipation' = eventParticipation
      ]_vars

\* C15: a join of a user whose role is not Marketer into an existing event
\* fails with Forbidden in the step that loads the event and the user, having
\* issued no write, and leaves the event and every user's eventParticipation
\* unchanged; no join of such a user is ever past the role check.
C15_JoinNeedsMarketerRole ==
    [][ \A p \in Procs :
          /\ ( /\ Invoked(p, "join")
                /\ events[proc'[p].e].exists
                /\ role(proc'[p].u) # "marketer" )
             => /\ proc'[p].pc = "idle" /\ proc'[p].res = Forbidden
                /\ NoWriteIssued(proc'[p])
                /\ events' = events /\ eventParticipation' = eventParticipation
          /\ ( proc[p].op = "join" /\ proc[p].pc # "idle" )
             => role(proc[p].u) = "marketer"
      ]_vars

\* A join of a concierge into an existing event has failed with Forbidden and
\* the concierge is neither in marketers nor has the event in eventParticipation.
C15_Witness ==
    \E p \in Procs :
        /\ proc[p].pc = "idle" /\ proc[p].op = "join" /\ proc[p].res = Forbidden
        /\ role(proc[p].u) # "marketer"
        /\ events[proc[p].e].exists
        /\ ~IsMarketer(proc[p].e, proc[p].u)
        /\ ~Participates(proc[p].u, proc[p].e)

----------------------------------------------------------------------------
\* Status query

\* Positions of the requests of user u in a request list.
RequestsOf(reqs, u) == { i \in 1..Len(reqs) : reqs[i].user = u }

Max(S) == CHOOSE x \in S : \A y \in S : y <= x

\* C16: myStatus(e, u) returns the status of the last request of u in the
\* request list of e (the most recently created one), and none when the event
\* is missing or u has no request in it.
C16_MyStatusIsLatest ==
    [][ \A p \in Procs :
          Invoked(p, "myStatus")
          => LET e == proc'[p].e
                 u == proc'[p].u
                 mine == RequestsOf(Requests(e), u)
             IN /\ proc'[p].pc = "idle"
                /\ proc'[p].res = IF events[e].exists /\ mine # {}
                                  THEN Requests(e)[Max(mine)].status
                                  ELSE NoStatus
      ]_vars

----------------------------------------------------------------------------
\* Error kinds

\* C17: join, leave, request, review, cancel and checkIn, invoked on an event
\* that does not exist, each fail with NotFound.
C17_MissingEventIsNotFound ==
    [][ \A p \in Procs :
          \A op \in {"join", "leave", "request", "review", "cancel", "checkIn"} :
             ( Invoked(p, op) /\ ~events[proc'[p].e].exists )
             => proc'[p].pc = "idle" /\ proc'[p].res = NotFound
      ]_vars

----------------------------------------------------------------------------
\* Serialization of the calls on one event

SerializedOps == {"request", "review", "cancel", "join", "leave"}

\* The handler of the finished call r, run by itself on the stored document
\* doc: whether it returns success, and the document it leaves.
Alone(doc, r) ==
    LET loaded == populate(doc)
    IN CASE r.op = "request" ->
              IF requestCheck(loaded, r.u) = OK
              THEN [ok |-> TRUE,
                    doc |-> savePush(doc, "conciergeRequests", newRequest(r.u, r.t, r.date))]
              ELSE [ok |-> FALSE, doc |-> doc]
         [] r.op = "review" ->
              IF reviewCheck(loaded, r.rid) = OK
              THEN [ok |-> TRUE, doc |-> saveReview(doc, loaded, r.rid, r.approve, r.date)]
              ELSE [ok |-> FALSE, doc |-> doc]
         [] r.op = "cancel" ->
              IF cancelCheck(loaded, r.u) = OK
              THEN [ok |-> TRUE, doc |-> saveCancel(doc, loaded, r.u)]
              ELSE [ok |-> FALSE, doc |-> doc]
         [] r.op = "join" ->
              IF joinCheck(loaded, r.u) = "write"
              THEN [ok |-> TRUE, doc |-> savePush(doc, "marketers", r.u)]
              ELSE [ok |-> joinCheck(loaded, r.u) = "noop", doc |-> doc]
         [] r.op = "leave" ->
              IF leaveCheck(loaded) = OK
              THEN [ok |-> TRUE, doc |-> saveLeave(doc, loaded, r.u)]
              ELSE [ok |-> FALSE, doc |-> doc]
         [] OTHER -> [ok |-> FALSE, doc |-> doc]

\* The event documents a behaviour can start from.
InitialDocs ==
    { [exists |-> TRUE, marketers |-> <<>>, conciergeRequests |-> rs,
       busPickups |-> <<>>, v |-> 0] : rs \in InitRequests }

\* Running call r1 and then call r2, each by itself, from doc: both succeed and
\* leave the marketers and conciergeRequests of final.
SerialOrder(doc, r1, r2, final) ==
    LET a == Alone(doc, r1)
        b == Alone(a.doc, r2)
    IN /\ a.ok /\ b.ok
       /\ b.doc.marketers = final.marketers
       /\ b.doc.conciergeRequests = final.conciergeRequests

\* C18: when the only two calls of a behaviour are request, review, cancel,
\* join or leave calls on one event, made by different callers, and both have
\* returned success, the stored event has the marketers and conciergeRequests
\* that running the two calls one after the other, in one of the two orders,
\* leaves.
C18_Serializable ==
    \A p, q \in Procs :
        ( /\ p # q
          /\ ncalls = 2
          /\ proc[p].t = 1 /\ proc[q].t = 2
          /\ \A x \in {p, q} :
                /\ proc[x].pc = "idle"
                /\ proc[x].op \in SerializedOps
                /\ proc[x].res = OK
          /\ proc[p].e = proc[q].e
          /\ events[proc[p].e].exists )
        => \E doc \in InitialDocs :
              \/ SerialOrder(doc, proc[p], proc[q], events[proc[p].e])
              \/ SerialOrder(doc, proc[q], proc[p], events[proc[p].e])

----------------------------------------------------------------------------
\* Membership

\* C19: the marketers of every stored event hold each user at most once.
C19_MarketersHaveNoDuplicates ==
    \A e \in EventIds :
        \A i, j \in 1..Len(events[e].marketers) :
            events[e].marketers[i] = events[e].marketers[j] => i = j

\* Neither write of the call has been rejected.
NoWriteRejected(r) == r.wE # "fail" /\ r.wU # "fail"

\* C20: no step of a leave(e, u) call taken while u is not in the marketers of
\* the existing event e changes e.marketers or u.eventParticipation, also
\* when e is in u.eventParticipation; and the call returns success unless the
\* store rejected one of its writes.
C20_LeaveOfNonMemberChangesNothing ==
    [][ \A p \in Procs :
          ( /\ proc'[p].op = "leave"
            /\ Invoked(p, "leave") \/ (proc[p].pc # "idle" /\ proc'[p] # proc[p])
            /\ events[proc'[p].e].exists
            /\ ~IsMarketerIn(events, proc'[p].e, proc'[p].u) )
          => /\ events'[proc'[p].e].marketers = events[proc'[p].e].marketers
             /\ eventParticipation'[proc'[p].u] = eventParticipation[proc'[p].u]
             /\ (proc'[p].pc = "idle" /\ NoWriteRejected(proc'[p]))
                   => proc'[p].res = OK
      ]_vars

----------------------------------------------------------------------------
\* Removal of an event

\* C21: when remove(e) returns success, no user has e in eventParticipation.
C21_RemoveLeavesNoBackReference ==
    [][ \A p \in Procs :
          ( /\ Returns(p)
            /\ proc'[p].op = "remove"
            /\ proc'[p].res = OK )
          => \A u \in UserIds :
                ~ParticipatesIn(eventParticipation', u, proc'[p].e)
      ]_vars

----------------------------------------------------------------------------
\* Check-in and the approval workflow

\* C22: every checked-in attendee of a stored event was checked in by a user
\* who holds an Approved request in that event.
C22_CheckedInByApproved ==
    \A a \in AttendeeIds :
        ( /\ attendees[a].checkedIn
          /\ attendees[a].event \in EventIds
          /\ events[attendees[a].event].exists )
        => HoldsApproved(Requests(attendees[a].event), attendees[a].checkedInBy)

\* C23: a checkIn on an existing event by a concierge without an Approved
\* request fails with Forbidden before any attendee is looked up, whether the
\* phone matches no attendee, an unchecked one or a checked-in one; a checkIn
\* that got past the authorization and finds no attendee for (event, phone)
\* fails with NotFound; in both cases no attendee is modified.
C23_CheckInGuardOrder ==
    [][ \A p \in Procs :
          /\ ( /\ Invoked(p, "checkIn")
                /\ events[proc'[p].e].exists
                /\ ~HoldsApproved(Requests(proc'[p].e), proc'[p].u) )
             => /\ proc'[p].pc = "idle"
                /\ proc'[p].res \notin {NotFound, Conflict, OK}
                /\ proc'[p].res = Forbidden
                /\ attendees' = attendees
          /\ ( /\ proc[p].pc = "ci_find" /\ proc'[p] # proc[p]
                /\ Addressed(proc[p].phone, proc[p].e) = {} )
             => /\ proc'[p].pc = "idle"
                /\ proc'[p].res = NotFound
                /\ attendees' = attendees
      ]_vars

\* Two checkIns for a phone no attendee of the event has: the one by a
\* concierge without an Approved request failed with Forbidden, the one by an
\* approved concierge with NotFound; no attendee is checked in.
C23_Witness ==
    \E p, q \in Procs :
        /\ proc[p].pc = "idle" /\ proc[p].op = "checkIn" /\ proc[p].res = Forbidden
        /\ proc[q].pc = "idle" /\ proc[q].op = "checkIn" /\ proc[q].res = NotFound
        /\ proc[p].e = proc[q].e /\ events[proc[p].e].exists
        /\ Addressed(proc[p].phone, proc[p].e) = {}
        /\ Addressed(proc[q].phone, proc[q].e) = {}
        /\ ~HoldsApproved(Requests(proc[p].e), proc[p].u)
        /\ HoldsApproved(Requests(proc[q].e), proc[q].u)
        /\ \A a \in AttendeeIds : ~attendees[a].checkedIn

----------------------------------------------------------------------------
\* Frame of the concierge workflow

\* Everything but the request list of event e is the same before and after.
OnlyRequestsChange(e) ==
    /\ events'[e].exists
    /\ events'[e].marketers = events[e].marketers
    /\ events'[e].busPickups = events[e].busPickups
    /\ \A f \in EventIds \ {e} : events'[f] = events[f]
    /\ eventParticipation' = eventParticipation
    /\ attendees' = attendees

\* C24: with handlers run one after another, a successful request appends one
\* request and leaves the existing ones as they are; a successful review
\* changes only status and reviewedAt of the request with the given id; a
\* successful cancel removes one request and keeps the others in order; each
\* leaves marketers, every user and every attendee unchanged; and a Pending
\* request never has a reviewedAt.
C24_WorkflowFrame ==
    [][ /\ \A p \in Procs :
             LET e == proc[p].e
                 old == Requests(e)
                 new == events'[e].conciergeRequests
             IN /\ ( Saves(p, "request") /\ proc'[p].res = OK )
                   => /\ OnlyRequestsChange(e)
                      /\ Len(new) = Len(old) + 1
                      /\ \A i \in 1..Len(old) : new[i] = old[i]
                /\ ( Saves(p, "review") /\ proc'[p].res = OK )
                   => /\ OnlyRequestsChange(e)
                      /\ Len(new) = Len(old)
                      /\ \A i \in 1..Len(old) :
                            IF old[i].id = proc[p].rid
                            THEN /\ new[i].id = old[i].id
                                 /\ new[i].user = old[i].user
                                 /\ new[i].requestedAt = old[i].requestedAt
                            ELSE new[i] = old[i]
                /\ ( Saves(p, "cancel") /\ proc'[p].res = OK )
                   => /\ OnlyRequestsChange(e)
                      /\ \E k \in 1..Len(old) : new = Dropped(old, k)
        /\ \A e \in EventIds : \A i \in 1..Len(events'[e].conciergeRequests) :
             events'[e].conciergeRequests[i].status = "Pending"
             => events'[e].conciergeRequests[i].reviewedAt = undefined
      ]_vars

\* A review has succeeded on a list that holds another user's Pending request:
\* the reviewed request is terminal with this call's reviewedAt, the other
\* request is still Pending without a reviewedAt.
C24_Witness ==
    /\ ncalls >= 1
    /\ proc["p1"].pc = "idle" /\ proc["p1"].res = OK
    /\ proc["p1"].op = "review"
    /\ \E i, j \in 1..Len(Requests("e1")) :
          /\ Requests("e1")[i].id = proc["p1"].rid
          /\ Terminal(Requests("e1")[i])
          /\ Requests("e1")[i].reviewedAt = proc["p1"].date
          /\ Requests("e1")[j].user # Requests("e1")[i].user
          /\ Requests("e1")[j].status = "Pending"
          /\ Requests("e1")[j].reviewedAt = undefined

====
